---- MODULE Spec2Model ----
(***************************************************************************)
(* SecureVault security service: AES-256-GCM envelope encryption behind    *)
(* /encrypt and /decrypt, and the k-anonymity breach lookup behind         *)
(* /breach-check.  Text is a sequence of one-character strings, bytes are  *)
(* sequences of 0..255, a Python str is a sequence of code points.         *)
(***************************************************************************)
EXTENDS Integers, Sequences, FiniteSets, TLC

(* ------------------------------------------------------------------ *)
(* Bounds of the model                                                 *)
(* ------------------------------------------------------------------ *)
\* encrypt calls whose envelopes are remembered
MaxEnc == 2
\* lines in a range-lookup response body
MaxLines == 2

(* ------------------------------------------------------------------ *)
(* Program constants                                                   *)
(* ------------------------------------------------------------------ *)
KeyLen == 32
NonceLen == 12
TagLen == 16
PrefixLen == 5
\* bounds the `cryptography` AESGCM binding puts on a nonce
MinNonceLen == 8
MaxNonceLen == 128

(* ------------------------------------------------------------------ *)
(* Bytes and bits                                                      *)
(* ------------------------------------------------------------------ *)
RECURSIVE XorBits(_, _, _)
XorBits(a, b, n) ==
    IF n = 0 THEN 0
    ELSE ((a + b) % 2) + 2 * XorBits(a \div 2, b \div 2, n - 1)

Xor(a, b) == XorBits(a, b, 8)

Pow2(b) == CASE b = 0 -> 1 [] b = 1 -> 2 [] b = 2 -> 4 [] b = 3 -> 8
             [] b = 4 -> 16 [] b = 5 -> 32 [] b = 6 -> 64 [] b = 7 -> 128

Take(s, n) == SubSeq(s, 1, IF n < Len(s) THEN n ELSE Len(s))
Drop(s, n) == SubSeq(s, n + 1, Len(s))

Ok(v) == [ok |-> TRUE, val |-> v, exc |-> "none"]
Raise(e) == [ok |-> FALSE, val |-> <<>>, exc |-> e]

(* ------------------------------------------------------------------ *)
(* bytes.fromhex                                                       *)
(* ------------------------------------------------------------------ *)
HexDigits == <<"0", "1", "2", "3", "4", "5", "6", "7", "8", "9",
               "a", "b", "c", "d", "e", "f">>
HexUpper == <<"0", "1", "2", "3", "4", "5", "6", "7", "8", "9",
              "A", "B", "C", "D", "E", "F">>

IsHex(c) == \E i \in 1..16 : HexDigits[i] = c \/ HexUpper[i] = c
HexVal(c) == (CHOOSE i \in 1..16 : HexDigits[i] = c \/ HexUpper[i] = c) - 1

\* bytes.fromhex(s): pairs of hex digits, anything else is a ValueError
RECURSIVE fromhex(_)
fromhex(s) ==
    IF Len(s) = 0 THEN Ok(<<>>)
    ELSE IF Len(s) = 1 \/ ~IsHex(s[1]) \/ ~IsHex(s[2]) THEN Raise("ValueError")
    ELSE LET rest == fromhex(Drop(s, 2))
         IN  IF rest.ok
             THEN Ok(<<16 * HexVal(s[1]) + HexVal(s[2])>> \o rest.val)
             ELSE rest

(* ------------------------------------------------------------------ *)
(* str.encode('utf-8') and bytes.decode('utf-8')                       *)
(* ------------------------------------------------------------------ *)
IsSurrogate(cp) == cp >= 55296 /\ cp <= 57343

EncodeCp(cp) ==
    IF cp < 128 THEN <<cp>>
    ELSE IF cp < 2048 THEN <<192 + (cp \div 64), 128 + (cp % 64)>>
    ELSE IF cp < 65536
         THEN <<224 + (cp \div 4096), 128 + ((cp \div 64) % 64), 128 + (cp % 64)>>
    ELSE <<240 + (cp \div 262144), 128 + ((cp \div 4096) % 64),
           128 + ((cp \div 64) % 64), 128 + (cp % 64)>>

RECURSIVE utf8_encode(_)
utf8_encode(str) ==
    IF Len(str) = 0 THEN Ok(<<>>)
    ELSE IF IsSurrogate(str[1]) THEN Raise("UnicodeEncodeError")
    ELSE LET rest == utf8_encode(Tail(str))
         IN  IF rest.ok THEN Ok(EncodeCp(str[1]) \o rest.val) ELSE rest

Cont(b) == b >= 128 /\ b <= 191

\* length of the well-formed UTF-8 sequence that starts bs, 0 if there is none
SeqLenAt(bs) ==
    LET b0 == bs[1]
        n  == Len(bs)
    IN  IF b0 < 128 THEN 1
        ELSE IF b0 >= 194 /\ b0 <= 223
             THEN IF n >= 2 /\ Cont(bs[2]) THEN 2 ELSE 0
        ELSE IF b0 >= 224 /\ b0 <= 239
             THEN IF n >= 3 /\ Cont(bs[2]) /\ Cont(bs[3])
                     /\ (b0 = 224 => bs[2] >= 160)
                     /\ (b0 = 237 => bs[2] <= 159)
                  THEN 3 ELSE 0
        ELSE IF b0 >= 240 /\ b0 <= 244
             THEN IF n >= 4 /\ Cont(bs[2]) /\ Cont(bs[3]) /\ Cont(bs[4])
                     /\ (b0 = 240 => bs[2] >= 144)
                     /\ (b0 = 244 => bs[2] <= 143)
                  THEN 4 ELSE 0
        ELSE 0

DecodeCp(bs, k) ==
    CASE k = 1 -> bs[1]
      [] k = 2 -> (bs[1] - 192) * 64 + (bs[2] - 128)
      [] k = 3 -> (bs[1] - 224) * 4096 + (bs[2] - 128) * 64 + (bs[3] - 128)
      [] k = 4 -> (bs[1] - 240) * 262144 + (bs[2] - 128) * 4096
                    + (bs[3] - 128) * 64 + (bs[4] - 128)

\* a decoder that takes every byte for a code point (latin-1)
utf8_decode_latin1(bs) == Ok(bs)

RECURSIVE utf8_decode(_)
utf8_decode(bs) ==
    IF Len(bs) = 0 THEN Ok(<<>>)
    ELSE LET k == SeqLenAt(bs)
         IN  IF k = 0 THEN Raise("UnicodeDecodeError")
             ELSE LET rest == utf8_decode(Drop(bs, k))
                  IN  IF rest.ok THEN Ok(<<DecodeCp(bs, k)>> \o rest.val) ELSE rest

(* ------------------------------------------------------------------ *)
(* base64.b64encode and base64.b64decode (validate=False)              *)
(* ------------------------------------------------------------------ *)
B64Chars == <<"A", "B", "C", "D", "E", "F", "G", "H", "I", "J", "K", "L", "M",
              "N", "O", "P", "Q", "R", "S", "T", "U", "V", "W", "X", "Y", "Z",
              "a", "b", "c", "d", "e", "f", "g", "h", "i", "j", "k", "l", "m",
              "n", "o", "p", "q", "r", "s", "t", "u", "v", "w", "x", "y", "z",
              "0", "1", "2", "3", "4", "5", "6", "7", "8", "9", "+", "/">>

B64Set == {B64Chars[i] : i \in 1..64}
B64Index == [c \in B64Set |-> (CHOOSE i \in 1..64 : B64Chars[i] = c) - 1]
B64(n) == B64Chars[n + 1]

RECURSIVE b64encode(_)
b64encode(bs) ==
    IF Len(bs) = 0 THEN <<>>
    ELSE IF Len(bs) = 1
         THEN <<B64(bs[1] \div 4), B64((bs[1] % 4) * 16), "=", "=">>
    ELSE IF Len(bs) = 2
         THEN <<B64(bs[1] \div 4), B64((bs[1] % 4) * 16 + (bs[2] \div 16)),
                B64((bs[2] % 16) * 4), "=">>
    ELSE <<B64(bs[1] \div 4), B64((bs[1] % 4) * 16 + (bs[2] \div 16)),
           B64((bs[2] % 16) * 4 + (bs[3] \div 64)), B64(bs[3] % 64)>>
         \o b64encode(Drop(bs, 3))

\* The non-strict decoder: characters outside the alphabet are dropped, the
\* bits left over in the last data character are dropped, input after a
\* complete pad is not read; a dangling quantum is a binascii.Error.
RECURSIVE A2B(_, _, _, _, _, _)
A2B(s, i, quad, left, pads, out) ==
    IF i > Len(s)
    THEN IF quad # 0 THEN Raise("binascii.Error") ELSE Ok(out)
    ELSE IF s[i] = "="
         THEN IF quad >= 2 /\ quad + pads + 1 >= 4
              THEN Ok(out)
              ELSE A2B(s, i + 1, quad, left,
                       IF quad >= 2 THEN pads + 1 ELSE pads, out)
    ELSE IF s[i] \notin B64Set
         THEN A2B(s, i + 1, quad, left, pads, out)
    ELSE LET v == B64Index[s[i]]
         IN  CASE quad = 0 -> A2B(s, i + 1, 1, v, 0, out)
               [] quad = 1 -> A2B(s, i + 1, 2, v % 16, 0,
                                  Append(out, left * 4 + (v \div 16)))
               [] quad = 2 -> A2B(s, i + 1, 3, v % 4, 0,
                                  Append(out, left * 16 + (v \div 4)))
               [] quad = 3 -> A2B(s, i + 1, 0, 0, 0,
                                  Append(out, left * 64 + v))

b64decode(s) == A2B(s, 1, 0, 0, 0, <<>>)

(* ------------------------------------------------------------------ *)
(* AES-256-GCM as the `cryptography` binding exposes it.  The block     *)
(* cipher is idealised: counter-mode keystream XORed onto the data, and *)
(* a 16-byte tag that binds key, nonce, data length and data.           *)
(* ------------------------------------------------------------------ *)
\* the counter block a nonce selects
J0(iv) ==
    IF Len(iv) = NonceLen THEN iv
    ELSE [j \in 1..NonceLen |->
            LET b == IF j <= Len(iv) THEN iv[j] ELSE 0
            IN  IF j = 1 THEN (b + Len(iv) + 1) % 256 ELSE b]

KeyStream(key, iv, i) ==
    (key[((i - 1) % KeyLen) + 1] * 7 + J0(iv)[((i - 1) % NonceLen) + 1] * 3 + i) % 256

CTR(key, iv, data) == [i \in 1..Len(data) |-> Xor(data[i], KeyStream(key, iv, i))]

RECURSIVE Fold(_, _, _)
Fold(ct, i, r) ==
    IF i > Len(ct) THEN 0
    ELSE Xor(IF i % 3 = r THEN (ct[i] + i) % 256 ELSE 0, Fold(ct, i + 1, r))

GMAC(key, iv, ct) ==
    [j \in 1..TagLen |->
        IF j <= NonceLen THEN Xor(J0(iv)[j], key[j])
        ELSE IF j = NonceLen + 1 THEN Xor(Len(ct) % 256, key[j])
        ELSE Xor(Fold(ct, 1, j % 3), key[j])]

\* AESGCM(key).encrypt(nonce, data, None): ciphertext with the tag appended
AESGCM_encrypt(key, nonce, data) ==
    IF Len(nonce) < MinNonceLen \/ Len(nonce) > MaxNonceLen THEN Raise("ValueError")
    ELSE LET ct == CTR(key, nonce, data)
         IN  Ok(ct \o GMAC(key, nonce, ct))

\* AESGCM(key).decrypt(nonce, data, None): the last 16 bytes are the tag
AESGCM_decrypt(key, nonce, data) ==
    IF Len(nonce) < MinNonceLen \/ Len(nonce) > MaxNonceLen THEN Raise("ValueError")
    ELSE IF Len(data) < TagLen THEN Raise("InvalidTag")
    ELSE LET ct  == Take(data, Len(data) - TagLen)
             tag == Drop(data, Len(data) - TagLen)
         IN  IF tag # GMAC(key, nonce, ct) THEN Raise("InvalidTag")
             ELSE Ok(CTR(key, nonce, ct))

(* ------------------------------------------------------------------ *)
(* services/encryption.py                                              *)
(* ------------------------------------------------------------------ *)
\* os.environ.get("VAULT_ENCRYPTION_KEY"): absent, or a string
Unset == [present |-> FALSE, value |-> <<>>]
EnvOf(s) == [present |-> TRUE, value |-> s]

_load_key(environ) ==
    IF ~environ.present \/ Len(environ.value) = 0 THEN Raise("RuntimeError")
    ELSE LET key_bytes == fromhex(environ.value)
         IN  IF ~key_bytes.ok THEN key_bytes
             ELSE IF Len(key_bytes.val) # KeyLen THEN Raise("RuntimeError")
             ELSE key_bytes

NoEnvelope == [ciphertext |-> <<>>, iv |-> <<>>, tag |-> <<>>]

\* encrypt with a nonce that does not come from the random source
encrypt_static_iv(environ, plaintext, token) ==
    LET key == _load_key(environ)
    IN  IF ~key.ok THEN [ok |-> FALSE, val |-> NoEnvelope, exc |-> key.exc]
        ELSE LET iv == [i \in 1..NonceLen |-> 0]
                 plaintext_bytes == utf8_encode(plaintext)
             IN  IF ~plaintext_bytes.ok
                 THEN [ok |-> FALSE, val |-> NoEnvelope, exc |-> plaintext_bytes.exc]
                 ELSE LET ciphertext_with_tag ==
                              AESGCM_encrypt(key.val, iv, plaintext_bytes.val).val
                          n == Len(ciphertext_with_tag)
                      IN  [ok |-> TRUE, exc |-> "none",
                           val |-> [ciphertext |-> b64encode(Take(ciphertext_with_tag, n - TagLen)),
                                    iv |-> b64encode(iv),
                                    tag |-> b64encode(Drop(ciphertext_with_tag, n - TagLen))]]

\* encrypt(plaintext), with token the value secrets.token_bytes(12) returns
encrypt(environ, plaintext, token) ==
    LET key == _load_key(environ)
    IN  IF ~key.ok THEN [ok |-> FALSE, val |-> NoEnvelope, exc |-> key.exc]
        ELSE LET iv == token
                 plaintext_bytes == utf8_encode(plaintext)
             IN  IF ~plaintext_bytes.ok
                 THEN [ok |-> FALSE, val |-> NoEnvelope, exc |-> plaintext_bytes.exc]
                 ELSE LET ciphertext_with_tag ==
                              AESGCM_encrypt(key.val, iv, plaintext_bytes.val).val
                          n == Len(ciphertext_with_tag)
                          ciphertext == Take(ciphertext_with_tag, n - TagLen)
                          tag == Drop(ciphertext_with_tag, n - TagLen)
                      IN  [ok |-> TRUE, exc |-> "none",
                           val |-> [ciphertext |-> b64encode(ciphertext),
                                    iv |-> b64encode(iv),
                                    tag |-> b64encode(tag)]]

\* decrypt(ciphertext_b64, iv_b64, tag_b64)
decrypt(environ, ciphertext_b64, iv_b64, tag_b64) ==
    LET key == _load_key(environ)
    IN  IF ~key.ok THEN key
        ELSE LET ciphertext == b64decode(ciphertext_b64)
                 iv == b64decode(iv_b64)
                 tag == b64decode(tag_b64)
             IN  IF ~ciphertext.ok THEN ciphertext
                 ELSE IF ~iv.ok THEN iv
                 ELSE IF ~tag.ok THEN tag
                 ELSE LET plaintext_bytes ==
                              AESGCM_decrypt(key.val, iv.val, ciphertext.val \o tag.val)
                      IN  IF ~plaintext_bytes.ok THEN plaintext_bytes
                          ELSE utf8_decode(plaintext_bytes.val)

(* ------------------------------------------------------------------ *)
(* Inputs the model draws                                              *)
(* ------------------------------------------------------------------ *)
ValidKeyHex ==
    <<"0", "0", "0", "1", "0", "2", "0", "3", "0", "4", "0", "5", "0", "6", "0", "7",
    "0", "8", "0", "9", "0", "a", "0", "b", "0", "c", "0", "d", "0", "e", "0", "f",
    "1", "0", "1", "1", "1", "2", "1", "3", "1", "4", "1", "5", "1", "6", "1", "7",
    "1", "8", "1", "9", "1", "a", "1", "b", "1", "c", "1", "d", "1", "e", "1", "f">>

\* values VAULT_ENCRYPTION_KEY may hold when the process starts
KeyConfigs ==
    { Unset,
      EnvOf(<<>>),
      EnvOf(<<"n", "o", "t", "h", "e", "x">>),
      EnvOf(Take(ValidKeyHex, 2 * KeyLen - 1)),
      EnvOf(Take(ValidKeyHex, 2 * KeyLen - 2)),
      EnvOf(ValidKeyHex) }

KeyIsValid(environ) == _load_key(environ).ok

\* plaintexts as code points: "" and "A" U+20AC (one byte and three in UTF-8)
Plaintexts == { <<>>, <<65, 8364>> }

\* values secrets.token_bytes(12) may return
TokenBytes ==
    { <<1, 2, 3, 4, 5, 6, 7, 8, 9, 10, 11, 12>>,
      <<255, 0, 128, 64, 32, 16, 8, 4, 2, 1, 170, 85>> }

\* bytes that are not UTF-8, sealed under the key by another holder of it
ForeignEnvelope ==
    LET key == fromhex(ValidKeyHex).val
        iv  == <<9, 9, 9, 9, 9, 9, 9, 9, 9, 9, 9, 9>>
        cwt == AESGCM_encrypt(key, iv, <<255>>).val
    IN  [ciphertext |-> b64encode(Take(cwt, 1)),
         iv |-> b64encode(iv),
         tag |-> b64encode(Drop(cwt, 1))]

(* ------------------------------------------------------------------ *)
(* What a client does to an envelope before sending it back            *)
(* ------------------------------------------------------------------ *)
Fields == {"ciphertext", "iv", "tag"}

NoTamper == [kind |-> "none", field |-> "none", byte |-> 0, bit |-> 0]
Tamper(k, f, i, b) == [kind |-> k, field |-> f, byte |-> i, bit |-> b]

\* the decoded fields of an envelope encrypt returned
Raw(e) == [f \in Fields |-> b64decode(e[f]).val]

FlipBit(bs, i, b) == [bs EXCEPT ![i] = Xor(bs[i], Pow2(b))]

\* index in s of the last character of the base64 alphabet
LastData(s) == CHOOSE i \in 1..Len(s) :
                  s[i] \in B64Set /\ \A j \in (i + 1)..Len(s) : s[j] \notin B64Set

\* the tamperings that apply to envelope e; others are the stored envelopes
Tamperings(e, others) ==
    LET r == Raw(e)
    IN  {NoTamper}
        \cup {Tamper("flip", f, i, b) : f \in {"iv", "tag"}, i \in 1..NonceLen, b \in 0..7}
        \cup {Tamper("flip", "tag", i, b) : i \in (NonceLen + 1)..TagLen, b \in 0..7}
        \cup {Tamper("flip", "ciphertext", i, b) : i \in 1..Len(r["ciphertext"]), b \in 0..7}
        \cup {Tamper(k, "tag", 0, 0) : k \in {"shift_right", "short_tag", "alias", "bad_pad"}}
        \cup {Tamper(k, "iv", 0, 0) : k \in {"long_nonce", "short_nonce", "junk"}}
        \cup {Tamper("shift_left", "tag", 0, 0) : x \in {1} \cap 1..Len(r["ciphertext"])}
        \cup {Tamper("swap_iv", "iv", j, 0) : j \in {j \in 1..Len(others) : others[j].iv # e.iv}}

Tampered(e, t, others) ==
    LET r  == Raw(e)
        ct == r["ciphertext"]
        iv == r["iv"]
        tg == r["tag"]
    IN  CASE t.kind = "none" -> e
          [] t.kind = "flip" ->
                [e EXCEPT ![t.field] = b64encode(FlipBit(r[t.field], t.byte, t.bit))]
          [] t.kind = "shift_right" ->
                [e EXCEPT !.ciphertext = b64encode(Append(ct, tg[1])),
                          !.tag = b64encode(Tail(tg))]
          [] t.kind = "shift_left" ->
                [e EXCEPT !.ciphertext = b64encode(Take(ct, Len(ct) - 1)),
                          !.tag = b64encode(<<ct[Len(ct)]>> \o tg)]
          [] t.kind = "short_tag" -> [e EXCEPT !.tag = b64encode(Take(tg, TagLen - 1))]
          [] t.kind = "long_nonce" -> [e EXCEPT !.iv = b64encode(Append(iv, 0))]
          [] t.kind = "short_nonce" -> [e EXCEPT !.iv = b64encode(Take(iv, MinNonceLen - 1))]
          [] t.kind = "alias" ->
                LET k == LastData(e.tag)
                IN  [e EXCEPT !.tag[k] = B64(B64Index[e.tag[k]] + 1)]
          [] t.kind = "junk" -> [e EXCEPT !.iv = <<"!">> \o e.iv]
          [] t.kind = "bad_pad" -> [e EXCEPT !.tag = Take(e.tag, Len(e.tag) - 1)]
          [] t.kind = "swap_iv" -> [e EXCEPT !.iv = others[t.byte].iv]

(* ------------------------------------------------------------------ *)
(* State                                                               *)
(* ------------------------------------------------------------------ *)
VARIABLES
    environ,    \* VAULT_ENCRYPTION_KEY as the process sees it
    ready,      \* the application's lifespan has been entered
    req,        \* the request being served
    resp,       \* the answer to the last request served
    encLog,     \* encrypt calls that returned: plaintext, token drawn, envelope
    outbound    \* range lookups sent: password (not sent), url, headers

vars == <<environ, ready, req, resp, encLog, outbound>>

NoReq == [endpoint |-> "none", plaintext |-> <<>>, envelope |-> NoEnvelope,
          password |-> <<>>, tamper |-> NoTamper, origin |-> 0]

\* what the network did with an outbound lookup
NoNet == [kind |-> "none", status |-> 0, text |-> <<>>]

NoResp == [req |-> NoReq, status |-> 0, exc |-> "none", plaintext |-> <<>>,
           envelope |-> NoEnvelope, breached |-> FALSE, count |-> 0,
           net |-> NoNet]

Envelopes == [i \in 1..Len(encLog) |-> encLog[i].envelope]

Init ==
    /\ environ \in KeyConfigs
    /\ ready = FALSE
    /\ req = NoReq
    /\ resp = NoResp
    /\ encLog = <<>>
    /\ outbound = {}

(* ------------------------------------------------------------------ *)
(* main.py                                                             *)
(* ------------------------------------------------------------------ *)
\* the lifespan context manager: log, then yield to serve
lifespan ==
    /\ ~ready
    /\ ready' = TRUE
    /\ UNCHANGED <<environ, req, resp, encLog, outbound>>

Idle == ready /\ req = NoReq /\ resp = NoResp

\* the answer leaves the service; nothing of the call is retained
Reply ==
    /\ req = NoReq
    /\ resp # NoResp
    /\ resp' = NoResp
    /\ UNCHANGED <<environ, ready, req, encLog, outbound>>

GetHealth ==
    /\ Idle
    /\ req' = [NoReq EXCEPT !.endpoint = "/health"]
    /\ UNCHANGED <<environ, ready, resp, encLog, outbound>>

health ==
    /\ ready
    /\ req.endpoint = "/health"
    /\ resp' = [NoResp EXCEPT !.req = req, !.status = 200]
    /\ req' = NoReq
    /\ UNCHANGED <<environ, ready, encLog, outbound>>

(* ------------------------------------------------------------------ *)
(* routers/encrypt.py                                                  *)
(* ------------------------------------------------------------------ *)
PostEncrypt(p) ==
    /\ Idle
    /\ Len(encLog) < MaxEnc
    /\ req' = [NoReq EXCEPT !.endpoint = "/encrypt", !.plaintext = p]
    /\ UNCHANGED <<environ, ready, resp, encLog, outbound>>

Logged(p, token, e) == Append(encLog, [plaintext |-> p, token |-> token, envelope |-> e])

\* POST /encrypt; an exception the handler does not catch is answered 500
encrypt_endpoint(token) ==
    /\ ready
    /\ req.endpoint = "/encrypt"
    /\ IF Len(req.plaintext) = 0
       THEN /\ resp' = [NoResp EXCEPT !.req = req, !.status = 400, !.exc = "HTTPException"]
            /\ UNCHANGED encLog
       ELSE LET r == encrypt(environ, req.plaintext, token)
            IN  IF r.ok
                THEN /\ resp' = [NoResp EXCEPT !.req = req, !.status = 200,
                                               !.envelope = r.val]
                     /\ encLog' = Logged(req.plaintext, token, r.val)
                ELSE /\ resp' = [NoResp EXCEPT !.req = req, !.status = 500, !.exc = r.exc]
                     /\ UNCHANGED encLog
    /\ req' = NoReq
    /\ UNCHANGED <<environ, ready, outbound>>

\* services.encryption.encrypt called in-process, without the router
encrypt_call(p, token) ==
    /\ Idle
    /\ Len(encLog) < MaxEnc
    /\ LET r == encrypt(environ, p, token)
           q == [NoReq EXCEPT !.endpoint = "encrypt()", !.plaintext = p]
       IN  IF r.ok
           THEN /\ resp' = [NoResp EXCEPT !.req = q, !.envelope = r.val]
                /\ encLog' = Logged(p, token, r.val)
           ELSE /\ resp' = [NoResp EXCEPT !.req = q, !.exc = r.exc]
                /\ UNCHANGED encLog
    /\ UNCHANGED <<environ, ready, req, outbound>>

\* the client sends back the envelope it got last, as it is or tampered with
PostDecrypt ==
    /\ Idle
    /\ Len(encLog) > 0
    /\ LET n == Len(encLog)
           e == encLog[n].envelope
           others == Envelopes
       IN  \E t \in Tamperings(e, others) :
              req' = [NoReq EXCEPT !.endpoint = "/decrypt",
                                   !.envelope = Tampered(e, t, others),
                                   !.tamper = t, !.origin = n]
    /\ UNCHANGED <<environ, ready, resp, encLog, outbound>>

\* the client sends an envelope the service did not produce
PostDecryptOther ==
    /\ Idle
    /\ \E e \in {NoEnvelope, ForeignEnvelope} :
          req' = [NoReq EXCEPT !.endpoint = "/decrypt", !.envelope = e,
                               !.tamper = Tamper("other", "none", 0, 0)]
    /\ UNCHANGED <<environ, ready, resp, encLog, outbound>>

\* a handler without the InvalidTag clause
DecryptStatus_no_tamper_signal(r) == IF r.ok THEN 200 ELSE 400

\* the status decrypt_endpoint answers for what decrypt returned or raised
DecryptStatus(r) ==
    IF r.ok THEN 200
    ELSE IF r.exc = "InvalidTag" THEN 422
    ELSE 400

\* POST /decrypt
decrypt_endpoint ==
    /\ ready
    /\ req.endpoint = "/decrypt"
    /\ LET r == decrypt(environ, req.envelope.ciphertext, req.envelope.iv, req.envelope.tag)
       IN  resp' = [NoResp EXCEPT !.req = req, !.status = DecryptStatus(r),
                                  !.exc = r.exc, !.plaintext = r.val]
    /\ req' = NoReq
    /\ UNCHANGED <<environ, ready, encLog, outbound>>

NextCipher ==
    \/ lifespan
    \/ Reply
    \/ GetHealth
    \/ health
    \/ \E p \in Plaintexts : PostEncrypt(p)
    \/ \E token \in TokenBytes : encrypt_endpoint(token)
    \/ \E p \in Plaintexts, token \in TokenBytes : encrypt_call(p, token)
    \/ PostDecrypt
    \/ PostDecryptOther
    \/ decrypt_endpoint

SpecCipher == Init /\ [][NextCipher]_vars

(* ------------------------------------------------------------------ *)
(* str methods services/breach.py uses                                 *)
(* ------------------------------------------------------------------ *)
LowerCase == <<"a", "b", "c", "d", "e", "f", "g", "h", "i", "j", "k", "l", "m",
             "n", "o", "p", "q", "r", "s", "t", "u", "v", "w", "x", "y", "z">>
UpperCase == <<"A", "B", "C", "D", "E", "F", "G", "H", "I", "J", "K", "L", "M",
             "N", "O", "P", "Q", "R", "S", "T", "U", "V", "W", "X", "Y", "Z">>

UpperChar(c) ==
    IF \E i \in 1..26 : LowerCase[i] = c
    THEN UpperCase[CHOOSE i \in 1..26 : LowerCase[i] = c]
    ELSE c

LowerChar(c) ==
    IF \E i \in 1..26 : UpperCase[i] = c
    THEN LowerCase[CHOOSE i \in 1..26 : UpperCase[i] = c]
    ELSE c

upper(s) == [i \in 1..Len(s) |-> UpperChar(s[i])]
lower(s) == [i \in 1..Len(s) |-> LowerChar(s[i])]

\* the k-th smallest element of a set of positions
Nth(P, k) == CHOOSE p \in P : Cardinality({q \in P : q < p}) = k - 1

\* s.split(sep) for a one-character separator
split(s, sep) ==
    LET P == {i \in 1..Len(s) : s[i] = sep}
        n == Cardinality(P)
    IN  [k \in 1..(n + 1) |->
            SubSeq(s, IF k = 1 THEN 1 ELSE Nth(P, k - 1) + 1,
                      IF k = n + 1 THEN Len(s) ELSE Nth(P, k) - 1)]

\* s.splitlines(): a line ends at "\n", "\r" or "\r\n"; no empty last line
splitlines(s) ==
    LET Ends == {i \in 1..Len(s) :
                    \/ s[i] = "\n"
                    \/ s[i] = "\r" /\ ~(i < Len(s) /\ s[i + 1] = "\n")}
        n == Cardinality(Ends)
        start(k) == IF k = 1 THEN 1 ELSE Nth(Ends, k - 1) + 1
        stop(k) == LET e == Nth(Ends, k)
                   IN  IF s[e] = "\n" /\ e > 1 /\ s[e - 1] = "\r" THEN e - 2 ELSE e - 1
        ended == [k \in 1..n |-> SubSeq(s, start(k), stop(k))]
    IN  IF start(n + 1) <= Len(s)
        THEN Append(ended, SubSeq(s, start(n + 1), Len(s)))
        ELSE ended

Digits == <<"0", "1", "2", "3", "4", "5", "6", "7", "8", "9">>
IsDigit(c) == \E i \in 1..10 : Digits[i] = c
DigitVal(c) == (CHOOSE i \in 1..10 : Digits[i] = c) - 1

RECURSIVE Strip(_)
Strip(s) ==
    IF Len(s) > 0 /\ s[1] = " " THEN Strip(Tail(s))
    ELSE IF Len(s) > 0 /\ s[Len(s)] = " " THEN Strip(Take(s, Len(s) - 1))
    ELSE s

RECURSIVE DecimalValue(_, _)
DecimalValue(s, acc) ==
    IF Len(s) = 0 THEN acc ELSE DecimalValue(Tail(s), 10 * acc + DigitVal(s[1]))

\* int(s): blanks around, an optional sign, decimal digits
int(s) ==
    LET t == Strip(s)
        signed == Len(t) > 0 /\ t[1] \in {"+", "-"}
        d == IF signed THEN Tail(t) ELSE t
    IN  IF Len(d) = 0 \/ \E i \in 1..Len(d) : ~IsDigit(d[i]) THEN Raise("ValueError")
        ELSE Ok(IF signed /\ t[1] = "-" THEN 0 - DecimalValue(d, 0) ELSE DecimalValue(d, 0))

(* ------------------------------------------------------------------ *)
(* services/breach.py                                                  *)
(* ------------------------------------------------------------------ *)
HIBP_API_URL ==
    <<"h", "t", "t", "p", "s", ":", "/", "/", "a", "p", "i", ".", "p", "w", "n", "e",
    "d", "p", "a", "s", "s", "w", "o", "r", "d", "s", ".", "c", "o", "m", "/", "r",
    "a", "n", "g", "e">>

Password1 == <<"p", "a", "s", "s", "w", "o", "r", "d">>
Password2 == <<"p", "7">>
Password3 == <<"x", "o">>

Passwords == {Password1, Password2, Password3}

\* hashlib.sha1(password.encode('utf-8')).hexdigest() of the passwords drawn
sha1_hexdigest(password) ==
    CASE password = Password1 ->
        <<"5", "b", "a", "a", "6", "1", "e", "4", "c", "9", "b", "9", "3", "f", "3", "f", "0", "6", "8", "2",
          "2", "5", "0", "b", "6", "c", "f", "8", "3", "3", "1", "b", "7", "e", "e", "6", "8", "f", "d", "8">>
      [] password = Password2 ->
        <<"e", "8", "8", "b", "9", "e", "b", "4", "a", "2", "9", "3", "4", "3", "7", "6", "2", "5", "2", "2",
          "7", "c", "5", "2", "9", "4", "6", "0", "d", "0", "e", "0", "0", "a", "2", "1", "6", "e", "9", "d">>
      [] password = Password3 ->
        <<"e", "8", "8", "b", "9", "d", "3", "7", "b", "0", "8", "1", "5", "8", "b", "4", "9", "3", "5", "4",
          "f", "d", "8", "5", "a", "3", "c", "4", "e", "0", "9", "5", "e", "0", "6", "5", "b", "c", "7", "6">>

sha1_hash(password) == upper(sha1_hexdigest(password))
prefix(password) == Take(sha1_hash(password), PrefixLen)
suffix(password) == Drop(sha1_hash(password), PrefixLen)

\* a lookup that sends the whole digest
RangeRequest_full_hash(password) ==
    [method |-> "GET",
     url |-> HIBP_API_URL \o <<"/">> \o sha1_hash(password),
     headers |-> {<<"Add-Padding", "true">>, <<"User-Agent", "SecureVault/1.0">>}]

\* the one request check_password_breach builds
RangeRequest(password) ==
    [method |-> "GET",
     url |-> HIBP_API_URL \o <<"/">> \o prefix(password),
     headers |-> {<<"Add-Padding", "true">>, <<"User-Agent", "SecureVault/1.0">>}]

IsSuccess(status) == status >= 200 /\ status <= 299

Found(count) == [ok |-> TRUE, exc |-> "none", breached |-> TRUE, count |-> count]
NotFound == [ok |-> TRUE, exc |-> "none", breached |-> FALSE, count |-> 0]
Failed(e) == [ok |-> FALSE, exc |-> e, breached |-> FALSE, count |-> 0]

\* the loop comparing the suffix as returned, without upper()
RECURSIVE Scan_case_sensitive(_, _, _)
Scan_case_sensitive(lines, i, sfx) ==
    IF i > Len(lines) THEN NotFound
    ELSE LET parts == split(lines[i], ":")
         IN  IF Len(parts) # 2 THEN Failed("ValueError")
             ELSE IF parts[1] = sfx
                  THEN LET n == int(parts[2])
                       IN  IF n.ok THEN Found(n.val) ELSE Failed(n.exc)
                  ELSE Scan_case_sensitive(lines, i + 1, sfx)

\* the loop over the response lines
RECURSIVE Scan(_, _, _)
Scan(lines, i, sfx) ==
    IF i > Len(lines) THEN NotFound
    ELSE LET parts == split(lines[i], ":")
         IN  IF Len(parts) # 2 THEN Failed("ValueError")
             ELSE LET returned_suffix == parts[1]
                      count == parts[2]
                  IN  IF upper(returned_suffix) = sfx
                      THEN LET n == int(count)
                           IN  IF n.ok THEN Found(n.val) ELSE Failed(n.exc)
                      ELSE Scan(lines, i + 1, sfx)

\* check_password_breach without response.raise_for_status()
check_password_breach_no_raise(password, net) ==
    IF net.kind = "timeout" THEN Failed("TimeoutException")
    ELSE IF net.kind = "connect_error" THEN Failed("ConnectError")
    ELSE Scan(splitlines(net.text), 1, suffix(password))

\* check_password_breach(password), with net what the lookup met
check_password_breach(password, net) ==
    IF net.kind = "timeout" THEN Failed("TimeoutException")
    ELSE IF net.kind = "connect_error" THEN Failed("ConnectError")
    ELSE IF ~IsSuccess(net.status) THEN Failed("HTTPStatusError")
    ELSE Scan(splitlines(net.text), 1, suffix(password))

(* ------------------------------------------------------------------ *)
(* What the range-lookup service may answer                            *)
(* ------------------------------------------------------------------ *)
OtherSuffix == [i \in 1..(40 - PrefixLen) |-> "A"]

\* lines a response may hold, for a lookup of password
LineChoices(password) ==
    LET s == suffix(password)
    IN  { s \o <<":", "3">>,
          lower(s) \o <<":", "1", "0">>,
          OtherSuffix \o <<":", "7">>,
          OtherSuffix \o <<":", "x">>,
          s \o <<":", "x">>,
          OtherSuffix \o <<":", "7", ":", "1">>,
          <<"g", "a", "r", "b", "a", "g", "e">>,
          <<>> }

RECURSIVE LineSeqs(_, _)
LineSeqs(choices, n) ==
    IF n = 0 THEN {<<>>}
    ELSE LET shorter == LineSeqs(choices, n - 1)
         IN  shorter \cup {Append(ls, l) : ls \in {x \in shorter : Len(x) = n - 1}, l \in choices}

RECURSIVE Join(_)
Join(ls) ==
    IF Len(ls) = 0 THEN <<>>
    ELSE IF Len(ls) = 1 THEN ls[1]
    ELSE ls[1] \o <<"\n">> \o Join(Tail(ls))

Statuses == {200, 301, 404, 503}

NetOutcomes(password) ==
    { [kind |-> "timeout", status |-> 0, text |-> <<>>],
      [kind |-> "connect_error", status |-> 0, text |-> <<>>] }
    \cup { [kind |-> "response", status |-> st, text |-> <<>>] : st \in Statuses \ {200} }
    \cup { [kind |-> "response", status |-> 200, text |-> Join(ls)] :
              ls \in LineSeqs(LineChoices(password), MaxLines) }

(* ------------------------------------------------------------------ *)
(* routers/breach.py                                                   *)
(* ------------------------------------------------------------------ *)
GetBreachCheck(password) ==
    /\ Idle
    /\ req' = [NoReq EXCEPT !.endpoint = "/breach-check", !.password = password]
    /\ UNCHANGED <<environ, ready, resp, encLog, outbound>>

\* GET /breach-check, with net what the lookup met: every exception is answered 503
breach_check ==
    /\ ready
    /\ req.endpoint = "/breach-check"
    /\ \E net \in NetOutcomes(req.password) :
          LET r == check_password_breach(req.password, net)
          IN  resp' = [NoResp EXCEPT !.req = req, !.net = net, !.exc = r.exc,
                                     !.status = IF r.ok THEN 200 ELSE 503,
                                     !.breached = r.breached,
                                     !.count = IF r.breached THEN r.count ELSE 0]
    /\ outbound' = outbound \cup {[password |-> req.password,
                                    request |-> RangeRequest(req.password)]}
    /\ req' = NoReq
    /\ UNCHANGED <<environ, ready, encLog>>

NextBreach ==
    \/ lifespan
    \/ Reply
    \/ GetHealth
    \/ health
    \/ \E password \in Passwords : GetBreachCheck(password)
    \/ breach_check

\* the breach checker does not read the key: one key configuration is enough
InitBreach ==
    /\ environ = EnvOf(ValidKeyHex)
    /\ ready = FALSE
    /\ req = NoReq
    /\ resp = NoResp
    /\ encLog = <<>>
    /\ outbound = {}

SpecBreach == InitBreach /\ [][NextBreach]_vars

Next == NextCipher \/ NextBreach

Spec == Init /\ [][Next]_vars

(* ------------------------------------------------------------------ *)
(* Properties                                                          *)
(* ------------------------------------------------------------------ *)
Served(endpoint) == resp.req.endpoint = endpoint

\* the envelope encrypt returned, of which the served request sent a version
Origin == encLog[resp.req.origin]

\* C1: an envelope that encrypt produced, sent back with one bit of its
\* ciphertext, nonce or tag altered (or with the nonce of another envelope),
\* is answered 422 for an InvalidTag and no plaintext is returned.
TamperDetection ==
    (Served("/decrypt") /\ resp.req.tamper.kind \in {"flip", "swap_iv"})
        => /\ resp.status = 422
           /\ resp.exc = "InvalidTag"
           /\ resp.plaintext = <<>>

TamperDetectionWitness ==
    /\ Served("/decrypt")
    /\ resp.req.tamper.kind = "flip"
    /\ resp.req.tamper.field = "ciphertext"
    /\ resp.req.envelope # Origin.envelope
    /\ resp.status = 422

\* C2: the three fields encrypt returned for a plaintext, sent back unchanged
\* under the same key, decrypt to exactly that plaintext, the empty one too.
RoundTrip ==
    (Served("/decrypt") /\ resp.req.tamper.kind = "none")
        => /\ resp.status = 200
           /\ resp.plaintext = Origin.plaintext

RoundTripWitness ==
    /\ Served("/decrypt")
    /\ resp.req.tamper.kind = "none"
    /\ resp.status = 200
    /\ Origin.plaintext = <<>>
    /\ \E i \in 1..Len(encLog) : Len(encLog[i].plaintext) > 1

Contains(s, sub) ==
    /\ Len(sub) > 0
    /\ \E i \in 1..(Len(s) - Len(sub) + 1) : SubSeq(s, i, i + Len(sub) - 1) = sub

\* what follows the fixed base of a lookup URL
PathSegment(url) == Drop(url, Len(HIBP_API_URL) + 1)

\* C3: the one outbound request of a lookup is the fixed URL base followed by
\* the first 5 characters of the digest, with fixed headers; the part that
\* depends on the password holds neither the suffix, the digest nor the
\* password, and passwords with the same prefix send the same request.
Anonymity ==
    \A a \in outbound :
        LET digest == upper(sha1_hexdigest(a.password))
            url == a.request.url
        IN  /\ Take(url, Len(HIBP_API_URL) + 1) = HIBP_API_URL \o <<"/">>
            /\ PathSegment(url) = SubSeq(digest, 1, 5)
            /\ ~Contains(url, SubSeq(digest, 6, 40))
            /\ ~Contains(url, digest)
            /\ ~Contains(url, sha1_hexdigest(a.password))
            /\ ~Contains(PathSegment(url), a.password)
            /\ a.request.headers = {<<"Add-Padding", "true">>, <<"User-Agent", "SecureVault/1.0">>}
            /\ \A b \in outbound :
                  SubSeq(upper(sha1_hexdigest(b.password)), 1, 5) = SubSeq(digest, 1, 5)
                      => b.request = a.request

AnonymityWitness ==
    \E a, b \in outbound :
        /\ a.password # b.password
        /\ SubSeq(sha1_hexdigest(a.password), 1, 5) = SubSeq(sha1_hexdigest(b.password), 1, 5)
        /\ SubSeq(sha1_hexdigest(a.password), 6, 40) # SubSeq(sha1_hexdigest(b.password), 6, 40)

LookupFailed ==
    \/ resp.net.kind \in {"timeout", "connect_error"}
    \/ resp.net.kind = "response" /\ resp.net.status \notin 200..299

\* C5: a lookup that times out, cannot connect or is answered with a
\* non-success status is answered 503, never "not breached"; "not breached"
\* is answered only after a successful response.
Unavailability ==
    Served("/breach-check")
        => /\ LookupFailed => resp.status = 503
           /\ (resp.status = 200 /\ ~resp.breached)
                 => (resp.net.kind = "response" /\ resp.net.status \in 200..299)

UnavailabilityWitness ==
    /\ Served("/breach-check")
    /\ resp.net.kind = "response"
    /\ resp.net.status = 404
    /\ resp.status = 503

GotBody == Served("/breach-check") /\ resp.net.kind = "response" /\ resp.net.status = 200

\* a SUFFIX:COUNT record
WellFormedLine(l) ==
    LET parts == split(l, ":")
    IN  Len(parts) = 2 /\ Len(parts[1]) = 40 - 5 /\ int(parts[2]).ok

\* what the first of the lines in M that matches the suffix gives
FirstMatch(lines, M, sfx) ==
    LET hits == {i \in M : lower(split(lines[i], ":")[1]) = lower(sfx)}
    IN  IF hits = {} THEN [breached |-> FALSE, count |-> 0]
        ELSE LET first == CHOOSE i \in hits : \A j \in hits : i <= j
             IN  [breached |-> TRUE, count |-> int(split(lines[first], ":")[2]).val]

Answered == [breached |-> resp.breached, count |-> resp.count]

\* C6: a line without separator, with more than one, or with a count that is
\* no integer is passed over, and the answer is the one the well-formed
\* lines alone give.
MalformedLinesSkipped ==
    GotBody =>
        LET lines == splitlines(resp.net.text)
            good == {i \in 1..Len(lines) : WellFormedLine(lines[i])}
        IN  /\ resp.status = 200
            /\ Answered = FirstMatch(lines, good, Drop(upper(sha1_hexdigest(resp.req.password)), 5))

AllWellFormed == \A i \in 1..Len(splitlines(resp.net.text)) :
                    WellFormedLine(splitlines(resp.net.text)[i])

\* C7: for a response of SUFFIX:COUNT lines the answer is (true, count of the
\* first line whose suffix equals the local one ignoring case), and
\* (false, 0) exactly when no line matches.
BreachMatching ==
    (GotBody /\ AllWellFormed) =>
        LET lines == splitlines(resp.net.text)
        IN  /\ resp.status = 200
            /\ Answered = FirstMatch(lines, 1..Len(lines),
                                     Drop(upper(sha1_hexdigest(resp.req.password)), 5))

BreachMatchingWitness ==
    /\ GotBody
    /\ AllWellFormed
    /\ Len(splitlines(resp.net.text)) = 2
    /\ splitlines(resp.net.text)[1] # upper(splitlines(resp.net.text)[1])
    /\ resp.breached
    /\ resp.count = 10

\* C8: an envelope whose nonce does not decode to 12 bytes or whose tag does
\* not decode to 16 bytes is answered 400 and yields no plaintext.
EnvelopeLengthsEnforced ==
    Served("/decrypt") =>
        LET iv == b64decode(resp.req.envelope.iv)
            tag == b64decode(resp.req.envelope.tag)
        IN  (iv.ok /\ tag.ok /\ (Len(iv.val) # 12 \/ Len(tag.val) # 16))
                => (resp.status = 400 /\ resp.plaintext = <<>>)

\* the tag of a well-formed envelope is not the one its nonce and ciphertext have
TagMismatch(e) ==
    LET key == _load_key(environ)
        ct == b64decode(e.ciphertext)
        iv == b64decode(e.iv)
        tag == b64decode(e.tag)
    IN  /\ key.ok /\ ct.ok /\ iv.ok /\ tag.ok
        /\ Len(iv.val) = 12
        /\ Len(tag.val) = 16
        /\ tag.val # GMAC(key.val, iv.val, ct.val)

\* C9: /decrypt answers 422 exactly when tag verification failed, and 400
\* for every other failure (base64, field lengths, undecodable result).
DistinctErrorSignalling ==
    Served("/decrypt") =>
        /\ resp.status = 422 <=> TagMismatch(resp.req.envelope)
        /\ (resp.status # 200 /\ ~TagMismatch(resp.req.envelope)) => resp.status = 400

\* C10: with a key that is absent, not hexadecimal or not 32 bytes the
\* process does not become ready and answers no request.
KeyValidationStartupFatal ==
    ~KeyIsValid(environ) => (~ready /\ req = NoReq /\ resp = NoResp)

====
